---- MODULE Spec2Model ----
(***************************************************************************)
(* quantum-conway: the host evaluator of src/src/main.rs (Grid::new,       *)
(* Grid::update with one rayon task per row, the per-cell update rule, the *)
(* dominant-state histogram), the partner codec of simulation/cell.rs and  *)
(* the device path's initialisation and ping-pong buffers.                 *)
(*                                                                         *)
(* Numbers.  f64 and f32 values are fixed-point integers in units of       *)
(* 1/Scale, every division and product rounded to the nearest unit; NaN    *)
(* and +infinity are the two negative codes below.  u32 words are pairs    *)
(* <<high 16 bits, low 16 bits>>.                                          *)
(*                                                                         *)
(* Randomness.  rand::thread_rng() is one generator per thread.  A         *)
(* generator is a cursor over a cyclic tape of draws; which tape a thread  *)
(* got (its seed) is chosen at start-up.  Each gen() reads the entry under *)
(* the cursor and moves the cursor on.                                     *)
(***************************************************************************)
EXTENDS Integers, Sequences, FiniteSets, TLC

\* ---------------------------------------------------------------- bounds
Scale == 10000
MaxRows == 2
MaxCells == 4
MaxTicks == 2

\* ------------------------------------------------------ floating point
NaN == -1
Inf == -2

IsNaN(a) == a = NaN

FAdd(a, b) ==
    IF a = NaN \/ b = NaN THEN NaN
    ELSE IF a = Inf \/ b = Inf THEN Inf
    ELSE a + b

FDiv(a, b) ==
    IF a = NaN \/ b = NaN THEN NaN
    ELSE IF b = Inf THEN (IF a = Inf THEN NaN ELSE 0)
    ELSE IF a = Inf THEN Inf
    ELSE IF b = 0 THEN (IF a = 0 THEN NaN ELSE Inf)
    ELSE (a * Scale + b \div 2) \div b

FMul(a, b) ==
    IF a = NaN \/ b = NaN THEN NaN
    ELSE IF a = Inf \/ b = Inf THEN (IF a = 0 \/ b = 0 THEN NaN ELSE Inf)
    ELSE (a * b + Scale \div 2) \div Scale

\* a < b and a > b on floats: false as soon as one side is NaN
FLt(a, b) ==
    /\ a # NaN /\ b # NaN
    /\ a # Inf
    /\ (b = Inf \/ a < b)

FGt(a, b) == FLt(b, a)

\* the literal k/1000
Milli(k) == (k * Scale) \div 1000

\* iter().sum() over a 4-array: a left fold from 0.0
Sum4(v) == FAdd(FAdd(FAdd(FAdd(0, v[0]), v[1]), v[2]), v[3])

\* ------------------------------------------------------------ generators
\* Tapes of draws of gen::<f64>(), in thousandths of [0, 1).
Tapes ==
    << <<0>>,
       <<500, 0, 0>>,
       <<950, 5>> >>

TapeIds == 1..Len(Tapes)

\* the n-th draw of generator tape g
Draw(g, n) == Milli(Tapes[g][(n % Len(Tapes[g])) + 1])

\* rng.gen_range(0..n), from the draw r
gen_range(r, n) == (r * n) \div Scale

\* thread k's generator when the process was seeded with `seed`: every
\* thread seeds its own generator, here with the k-th tape after `seed`
Seeded(seed, k) == [tape |-> ((seed + k - 1) % Len(Tapes)) + 1, n |-> 0]

Advance(g, n, used) == (n + used) % Len(Tapes[g])

\* ------------------------------------------------------------ cell, grid
None == <<>>

Some(x, y) == <<x, y>>

CellState(probs, partner) ==
    [state_probabilities |-> probs, entangled_partner |-> partner]

\* Option<(usize, usize)> drawn in Grid::new: the entanglement draw, then
\* gen_range(0..width) and gen_range(0..height), left to right
new_partner(width, height, g, n) ==
    IF FLt(Draw(g, n), Milli(880))
    THEN Some(gen_range(Draw(g, n + 1), width), gen_range(Draw(g, n + 2), height))
    ELSE None

\* probabilities of one new cell: 4 draws, divided by their sum
new_probs(g, n) ==
    LET probs == [i \in 0..3 |-> Draw(g, n + i)]
        sum == Sum4(probs)
    IN  [i \in 0..3 |-> FDiv(probs[i], sum)]

\* draws one cell of Grid::new consumes
new_cell_draws(g, n) == IF FLt(Draw(g, n + 4), Milli(880)) THEN 7 ELSE 5

new_cell(width, height, g, n) ==
    CellState(new_probs(g, n), new_partner(width, height, g, n + 4))

\* the cells of Grid::new in the order they are drawn (row by row), the
\* generator starting at draw n
RECURSIVE new_cells(_, _, _, _, _)
new_cells(width, height, g, n, left) ==
    IF left = 0 THEN <<>>
    ELSE <<new_cell(width, height, g, n)>>
         \o new_cells(width, height, g, n + new_cell_draws(g, n), left - 1)

GridNew(w, h, g) ==
    LET flat == new_cells(w, h, g, 0, w * h)
    IN  [i \in 0..(h - 1) |-> [j \in 0..(w - 1) |-> flat[i * w + j + 1]]]

RECURSIVE draws_used(_, _, _)
draws_used(g, n, left) ==
    IF left = 0 THEN n ELSE draws_used(g, n + new_cell_draws(g, n), left - 1)

\* ------------------------------------------------------------- neighbours
\* mutant: the remainder operator %, which keeps the dividend's sign
rem_euclid_truncating(a, n) == IF a < 0 THEN -((-a) % n) ELSE a % n

rem_euclid(a, n) == a % n

\* mutant: the pair (0, 0) not skipped
Offsets_all == [k \in 1..9 |-> <<((k - 1) \div 3) - 1, ((k - 1) % 3) - 1>>]

\* the (i_offset, j_offset) pairs in the order the two loops visit them,
\* the pair (0, 0) skipped
Offsets ==
    SelectSeq([k \in 1..9 |-> <<((k - 1) \div 3) - 1, ((k - 1) % 3) - 1>>],
              LAMBDA o : ~(o[1] = 0 /\ o[2] = 0))

neighbor_index(row, col, width, height, o) ==
    <<rem_euclid(row + o[1], height), rem_euclid(col + o[2], width)>>

neighbor_indices(row, col, width, height) ==
    [k \in 1..Len(Offsets) |-> neighbor_index(row, col, width, height, Offsets[k])]

InGrid(grid, rc) == rc[1] \in DOMAIN grid /\ rc[2] \in DOMAIN grid[rc[1]]

get_neighbors(grid, row, col, width, height) ==
    LET at == neighbor_indices(row, col, width, height)
    IN  [k \in 1..Len(at) |-> grid[at[k][1]][at[k][2]]]

\* ------------------------------------------------------------ update rule
randomness_factor == Milli(10)

Two == 2 * Scale

PartnerInRange(grid, current_state) ==
    \/ current_state.entangled_partner = None
    \/ InGrid(grid, current_state.entangled_partner)

\* draws the entanglement block consumes: 4 when there is a partner
sync_draws(current_state) ==
    IF current_state.entangled_partner = None THEN 0 ELSE 4

\* mutant: the partner's component copied, not averaged
synchronize_copy(grid, current_state, g, n) ==
    LET p == current_state.state_probabilities
        partner == current_state.entangled_partner
    IN  IF partner = None THEN p
        ELSE [i \in 0..3 |->
                IF FLt(Draw(g, n + i), randomness_factor)
                THEN grid[partner[1]][partner[2]].state_probabilities[i]
                ELSE p[i]]

\* the entanglement block: component i becomes the mean of itself and the
\* partner's component i when the i-th draw is below randomness_factor
synchronize(grid, current_state, g, n) ==
    LET p == current_state.state_probabilities
        partner == current_state.entangled_partner
    IN  IF partner = None THEN p
        ELSE LET partner_state == grid[partner[1]][partner[2]]
             IN  [i \in 0..3 |->
                    IF FLt(Draw(g, n + i), randomness_factor)
                    THEN FDiv(FAdd(p[i], partner_state.state_probabilities[i]), Two)
                    ELSE p[i]]

\* neighbor_influence[i] after the first k neighbours were added
RECURSIVE influence_of(_, _, _)
influence_of(neighbors, i, k) ==
    IF k = 0 THEN 0
    ELSE FAdd(influence_of(neighbors, i, k - 1),
              neighbors[k].state_probabilities[i])

neighbor_influence(neighbors) ==
    [i \in 0..3 |-> influence_of(neighbors, i, Len(neighbors))]

normalize_influence(influence) ==
    LET total_influence == Sum4(influence)
    IN  IF FGt(total_influence, 0)
        THEN [i \in 0..3 |-> FDiv(influence[i], total_influence)]
        ELSE influence

\* mutant: the noise added without a draw
perturb_undrawn(p, influence, g, n) ==
    [i \in 0..3 |-> FAdd(FDiv(FAdd(p[i], influence[i]), Two), randomness_factor)]

\* the blend with the neighbours and the additive noise
perturb(p, influence, g, n) ==
    [i \in 0..3 |->
        FAdd(FDiv(FAdd(p[i], influence[i]), Two),
             FMul(Draw(g, n + i), randomness_factor))]

\* mutant: the last loop left out
renormalize_skipped(p) == p

renormalize(p) ==
    LET total_prob == Sum4(p)
    IN  [i \in 0..3 |-> FDiv(p[i], total_prob)]

\* mutant: the new state built without the partner of the old one
calculate_new_state_unlinked(grid, current_state, neighbors, g, n) ==
    LET synced == synchronize(grid, current_state, g, n)
        influence == normalize_influence(neighbor_influence(neighbors))
        noisy == perturb(synced, influence, g, n + sync_draws(current_state))
    IN  [new_state |-> CellState(renormalize(noisy), None),
         total_prob |-> Sum4(noisy),
         draws |-> sync_draws(current_state) + 4]

\* calculate_new_state with generator tape g at draw n; the divisor of the
\* last loop and the number of draws consumed are returned with the state
calculate_new_state(grid, current_state, neighbors, g, n) ==
    LET synced == synchronize(grid, current_state, g, n)
        influence == normalize_influence(neighbor_influence(neighbors))
        noisy == perturb(synced, influence, g, n + sync_draws(current_state))
    IN  [new_state |-> CellState(renormalize(noisy), current_state.entangled_partner),
         total_prob |-> Sum4(noisy),
         draws |-> sync_draws(current_state) + 4]

\* ------------------------------------------------------------ diagnostics
\* iter().enumerate().max_by(partial_cmp): a fold that keeps the later
\* element unless the earlier one compares Greater
RECURSIVE max_by(_, _)
max_by(p, k) ==
    IF k = 0 THEN 0
    ELSE LET x == max_by(p, k - 1)
         IN  IF FGt(p[x], p[k]) THEN x ELSE k

max_index(p) == max_by(p, 3)

\* partial_cmp(..).unwrap() panics when a component is NaN
CmpPanics(p) == \E i \in 0..3 : IsNaN(p[i])

Coords(grid) == UNION {{<<i, j>> : j \in DOMAIN grid[i]} : i \in DOMAIN grid}

At(grid, rc) == grid[rc[1]][rc[2]]

CountCells(grid, S) ==
    Cardinality({rc \in Coords(grid) : max_index(At(grid, rc).state_probabilities) \in S})

\* mutant: the last state left out of the third bucket
calculate_state_distribution_short(grid) ==
    [one |-> CountCells(grid, {0}),
     minus_one |-> CountCells(grid, {1}),
     complex |-> CountCells(grid, {2})]

calculate_state_distribution(grid) ==
    [one |-> CountCells(grid, {0}),
     minus_one |-> CountCells(grid, {1}),
     complex |-> CountCells(grid, {2, 3})]

\* ------------------------------------------------------------------ state
VARIABLES
    width, height,  \* Grid.width, Grid.height
    cells,          \* Grid.cells: row -> column -> CellState
    cells0,         \* history: the grid as Grid::new returned it
    cells_arc,      \* update's clone of the cells, shared by the row tasks
    phase,          \* "start", "idle", "running" (inside update), "panic: .."
    tick,           \* completed calls of update
    row_next,       \* per row: the next column j of its for loop
    row_owner,      \* per row: the pool thread that took it, 0 for none
    thr_row,        \* per pool thread: the row it is running, -1 for none
    rng,            \* per thread (0 = main): its generator's tape and cursor
    total_prob,     \* <<divisor>> of the last renormalization, <<>> before
    distribution    \* last StateDistribution returned, <<>> for none

hostVars ==
    <<width, height, cells, cells0, cells_arc, phase, tick, row_next,
      row_owner, thr_row, rng, total_prob, distribution>>

VARIABLES
    nb_at,          \* <<row, col>> handed to get_neighbors
    nb_out          \* <<>> before the call, then <<its outcome>>

nbVars == <<nb_at, nb_out>>

VARIABLES
    codec_in,       \* the partner handed to encode_partner, or a raw word
    encoded,        \* <<>>, then <<the u32 word>>
    decoded         \* <<>>, then <<the Option decode_partner returned>>

codecVars == <<codec_in, encoded, decoded>>

VARIABLES
    dev_width,      \* the width and height handed to the device Grid::new
    dev_height,     \*   and to GridBuffers::new
    dev_rng,        \* thread_rng of the device Grid::new
    gpu_cells,      \* Grid.cells, row-major
    buffers,        \* content of buffer_a and buffer_b
    read_from_a,
    frame_number,   \* u32, <<high half, low half>>
    frames,         \* one record per frame that reached the compute pass
    last_surface,   \* outcome of the last get_current_texture
    dev_phase,
    view,           \* App.view, <<>> while there is no App
    keys            \* the keys handle_key was called with

devVars ==
    <<dev_width, dev_height, dev_rng, gpu_cells, buffers, read_from_a,
      frame_number, frames, last_surface, dev_phase, view, keys>>

otherVars == <<nbVars, codecVars, devVars>>

Rows == 0..(height - 1)

Cols == 0..(width - 1)

\* rayon's pool, sized by the machine: two threads here
Threads == {1, 2}

\* the grid shapes explored, <<width, height>>: at most MaxRows rows and
\* MaxCells cells
Shapes == {wh \in (1..MaxCells) \X (1..MaxRows) : wh[1] * wh[2] <= MaxCells}

HostInit ==
    /\ \E wh \in Shapes : width = wh[1] /\ height = wh[2]
    /\ \E seed \in TapeIds : rng = [k \in {0} \cup Threads |-> Seeded(seed, k)]
    /\ cells = <<>>
    /\ cells0 = <<>>
    /\ cells_arc = <<>>
    /\ phase = "start"
    /\ tick = 0
    /\ row_next = <<>>
    /\ row_owner = <<>>
    /\ thr_row = [t \in Threads |-> -1]
    /\ total_prob = <<>>
    /\ distribution = <<>>

\* let mut grid = Grid::new(grid_width, grid_height)
New ==
    /\ phase = "start"
    /\ cells' = GridNew(width, height, rng[0].tape)
    /\ cells0' = cells'
    /\ rng' = [rng EXCEPT ![0].n =
                  Advance(rng[0].tape, 0, draws_used(rng[0].tape, 0, width * height))]
    /\ phase' = "idle"
    /\ UNCHANGED <<width, height, cells_arc, tick, row_next, row_owner,
                   thr_row, total_prob, distribution>>
    /\ UNCHANGED otherVars

\* update, up to the parallel loop: the clone behind the Arc
UpdateStart ==
    /\ phase = "idle"
    /\ tick < MaxTicks
    /\ cells_arc' = cells
    /\ row_next' = [i \in Rows |-> 0]
    /\ row_owner' = [i \in Rows |-> 0]
    /\ phase' = "running"
    /\ distribution' = <<>>
    /\ UNCHANGED <<width, height, cells, cells0, tick, thr_row, rng, total_prob>>
    /\ UNCHANGED otherVars

\* mutant: a row's closure call is handed out again while a thread has it
TakeRow_shared(t, i) ==
    /\ phase = "running"
    /\ thr_row[t] = -1
    /\ row_next[i] < width
    /\ row_owner' = [row_owner EXCEPT ![i] = t]
    /\ thr_row' = [thr_row EXCEPT ![t] = i]
    /\ UNCHANGED <<width, height, cells, cells0, cells_arc, phase, tick,
                   row_next, rng, total_prob, distribution>>
    /\ UNCHANGED otherVars

\* a pool thread takes the closure call of a row no thread has taken
TakeRow(t, i) ==
    /\ phase = "running"
    /\ thr_row[t] = -1
    /\ row_owner[i] = 0
    /\ row_owner' = [row_owner EXCEPT ![i] = t]
    /\ thr_row' = [thr_row EXCEPT ![t] = i]
    /\ UNCHANGED <<width, height, cells, cells0, cells_arc, phase, tick,
                   row_next, rng, total_prob, distribution>>
    /\ UNCHANGED otherVars

\* mutant: the closure reads the grid being written
SnapshotRead_live == cells

\* the grid the closure reads: the Arc'd clone
SnapshotRead == cells_arc

\* one pass of `for j in 0..width` in the closure of thread t's row
CellStep(t) ==
    LET i == thr_row[t]
        j == row_next[i]
        grid == SnapshotRead
    IN  /\ phase = "running"
        /\ i # -1
        /\ j < width
        /\ IF PartnerInRange(grid, grid[i][j])
           THEN /\ \E r \in {calculate_new_state(grid, grid[i][j],
                                    get_neighbors(grid, i, j, width, height),
                                    rng[t].tape, rng[t].n)} :
                      /\ cells' = [cells EXCEPT ![i][j] = r.new_state]
                      /\ total_prob' = <<r.total_prob>>
                      /\ rng' = [rng EXCEPT ![t].n =
                                    Advance(rng[t].tape, rng[t].n, r.draws)]
                /\ row_next' = [row_next EXCEPT ![i] = j + 1]
                /\ thr_row' = [thr_row EXCEPT ![t] = IF j + 1 = width THEN -1 ELSE i]
                /\ phase' = phase
           ELSE \* index out of bounds: the task panics and update unwinds
                /\ phase' = "panic: index out of bounds"
                /\ UNCHANGED <<cells, total_prob, rng, row_next, thr_row>>
        /\ UNCHANGED <<width, height, cells0, cells_arc, tick, row_owner,
                       distribution>>
        /\ UNCHANGED otherVars

\* for_each returns once every row's closure has returned
UpdateJoin ==
    /\ phase = "running"
    /\ \A i \in Rows : row_next[i] = width
    /\ phase' = "idle"
    /\ tick' = tick + 1
    /\ cells_arc' = <<>>
    /\ UNCHANGED <<width, height, cells, cells0, row_next, row_owner, thr_row,
                   rng, total_prob, distribution>>
    /\ UNCHANGED otherVars

\* grid.calculate_state_distribution() between two updates
Diagnose ==
    /\ phase = "idle"
    /\ distribution = <<>>
    /\ IF \E rc \in Coords(cells) : CmpPanics(At(cells, rc).state_probabilities)
       THEN /\ phase' = "panic: unwrap on None"
            /\ UNCHANGED distribution
       ELSE /\ distribution' = calculate_state_distribution(cells)
            /\ UNCHANGED phase
    /\ UNCHANGED <<width, height, cells, cells0, cells_arc, tick, row_next,
                   row_owner, thr_row, rng, total_prob>>
    /\ UNCHANGED otherVars

HostNext ==
    \/ New
    \/ UpdateStart
    \/ \E t \in Threads, i \in Rows : TakeRow(t, i)
    \/ \E t \in Threads : CellStep(t)
    \/ UpdateJoin
    \/ Diagnose

NbIdle == nb_at = <<>> /\ nb_out = <<>>

CodecIdle == codec_in = <<>> /\ encoded = <<>> /\ decoded = <<>>

GpuOff ==
    /\ dev_width = 0
    /\ dev_height = 0
    /\ dev_rng = <<>>
    /\ gpu_cells = <<>>
    /\ buffers = <<>>
    /\ read_from_a = TRUE
    /\ frame_number = <<0, 0>>
    /\ frames = <<>>
    /\ last_surface = "none"
    /\ dev_phase = "off"

DevIdle == GpuOff /\ view = <<>> /\ keys = <<>>

vars == <<hostVars, otherVars>>

Init == HostInit /\ NbIdle /\ CodecIdle /\ DevIdle

Next == HostNext

Spec == Init /\ [][Next]_vars

\* ------------------------------------------------- get_neighbors alone
MaxSide == 4

\* what a call of get_neighbors does: the 8 index pairs it computes and,
\* unless one of them is out of range (the indexing then panics), the cells
neighbors_call(grid, row, col, w, h) ==
    LET at == neighbor_indices(row, col, w, h)
    IN  IF \A k \in DOMAIN at : InGrid(grid, at[k])
        THEN [panic |-> FALSE, at |-> at,
              neighbors |-> get_neighbors(grid, row, col, w, h)]
        ELSE [panic |-> TRUE, at |-> at, neighbors |-> <<>>]

\* a grid of any shape up to MaxSide x MaxSide as Grid::new returns it, and
\* a coordinate of it
NbInit ==
    /\ \E w \in 1..MaxSide, h \in 1..MaxSide, seed \in TapeIds :
          /\ width = w
          /\ height = h
          /\ cells = GridNew(w, h, seed)
          /\ rng = [k \in {0} \cup Threads |->
                      IF k = 0
                      THEN [tape |-> seed,
                            n |-> Advance(seed, 0, draws_used(seed, 0, w * h))]
                      ELSE Seeded(seed, k)]
    /\ cells0 = cells
    /\ cells_arc = <<>>
    /\ phase = "idle"
    /\ tick = 0
    /\ row_next = <<>>
    /\ row_owner = <<>>
    /\ thr_row = [t \in Threads |-> -1]
    /\ total_prob = <<>>
    /\ distribution = <<>>
    /\ nb_at \in Coords(cells)
    /\ nb_out = <<>>
    /\ CodecIdle
    /\ DevIdle

Neighbors ==
    /\ nb_out = <<>>
    /\ nb_out' = <<neighbors_call(cells, nb_at[1], nb_at[2], width, height)>>
    /\ UNCHANGED <<hostVars, nb_at, codecVars, devVars>>

NbNext == Neighbors

SpecNeighbors == NbInit /\ [][NbNext]_vars

\* ------------------------------------------------------ the partner codec
CodecSpread == 1

\* bitwise | and & on 16-bit halves
RECURSIVE bit_or(_, _)
bit_or(a, b) ==
    IF a = 0 THEN b
    ELSE IF b = 0 THEN a
    ELSE (IF a % 2 = 1 \/ b % 2 = 1 THEN 1 ELSE 0) + 2 * bit_or(a \div 2, b \div 2)

RECURSIVE bit_and(_, _)
bit_and(a, b) ==
    IF a = 0 \/ b = 0 THEN 0
    ELSE (IF a % 2 = 1 /\ b % 2 = 1 THEN 1 ELSE 0) + 2 * bit_and(a \div 2, b \div 2)

\* u32 words as <<high half, low half>>
U32Or(u, v) == <<bit_or(u[1], v[1]), bit_or(u[2], v[2])>>

U32And(u, v) == <<bit_and(u[1], v[1]), bit_and(u[2], v[2])>>

\* u << 16: the low half moves up, the high half is shifted out
Shl16(u) == <<u[2], 0>>

\* u >> 16
Shr16(u) == <<0, u[1]>>

\* mutant: the literal 0x7FFF
Mask16_short == <<0, 32767>>

\* the literal 0xFFFF
Mask16 == <<0, 65535>>

\* mutant: an all-zero marker
NO_ENTANGLEMENT_zero == <<0, 0>>

NO_ENTANGLEMENT == <<65535, 65535>>

encode_partner(partner) ==
    IF partner = None THEN NO_ENTANGLEMENT
    ELSE U32Or(Shl16(partner[1]), U32And(partner[2], Mask16))

\* mutant: the two halves taken the wrong way round
decode_partner_swapped(word) ==
    IF word = NO_ENTANGLEMENT THEN None
    ELSE Some(U32And(word, Mask16), Shr16(word))

decode_partner(word) ==
    IF word = NO_ENTANGLEMENT THEN None
    ELSE Some(Shr16(word), U32And(word, Mask16))

\* the u32 values tried: around 0, around 0xFFFF and above 16 bits
Low16 == (0..CodecSpread) \cup ((65535 - CodecSpread)..65535)

U32Samples == {<<hi, lo>> : hi \in {0, 1, 65535}, lo \in Low16}

WordSamples == {<<hi, lo>> : hi \in Low16, lo \in Low16}

HostOff ==
    /\ width = 0
    /\ height = 0
    /\ cells = <<>>
    /\ cells0 = <<>>
    /\ cells_arc = <<>>
    /\ phase = "off"
    /\ tick = 0
    /\ row_next = <<>>
    /\ row_owner = <<>>
    /\ thr_row = [t \in Threads |-> -1]
    /\ rng = <<>>
    /\ total_prob = <<>>
    /\ distribution = <<>>

\* the input is a partner to encode and decode again, or a raw word to decode
CodecInit ==
    /\ HostOff
    /\ NbIdle
    /\ DevIdle
    /\ codec_in \in
          {[kind |-> "partner", partner |-> None]}
          \cup {[kind |-> "partner", partner |-> Some(x, y)] :
                   x \in U32Samples, y \in U32Samples}
          \cup {[kind |-> "word", word |-> w] : w \in WordSamples}
    /\ encoded = IF codec_in.kind = "word" THEN <<codec_in.word>> ELSE <<>>
    /\ decoded = <<>>

Encode ==
    /\ codec_in.kind = "partner"
    /\ encoded = <<>>
    /\ encoded' = <<encode_partner(codec_in.partner)>>
    /\ UNCHANGED <<hostVars, nbVars, codec_in, decoded, devVars>>

Decode ==
    /\ encoded # <<>>
    /\ decoded = <<>>
    /\ decoded' = <<decode_partner(encoded[1])>>
    /\ UNCHANGED <<hostVars, nbVars, codec_in, encoded, devVars>>

CodecNext == Encode \/ Decode

SpecCodec == CodecInit /\ [][CodecNext]_vars

\* --------------------------------------------------------- device path
MaxFrames == 3

\* f32::sqrt, rounded to the nearest representable value
RECURSIVE sqrt_floor(_, _, _)
sqrt_floor(n, lo, hi) ==
    IF lo >= hi THEN lo
    ELSE LET mid == (lo + hi + 1) \div 2
         IN  IF mid * mid <= n
             THEN sqrt_floor(n, mid, hi)
             ELSE sqrt_floor(n, lo, mid - 1)

FSqrt(a) ==
    IF a = NaN \/ a = Inf THEN a
    ELSE LET r == sqrt_floor(a * Scale, 0, Scale + a)
         IN  IF a * Scale - r * r > r THEN r + 1 ELSE r

u32(k) == <<0, k>>

\* the probabilities of one new device cell: a dominant state with
\* probability in [0.5, 0.8), the rest spread over the others, then divided
\* by the sum
gpu_probs(g, n) ==
    LET dominant == gen_range(Draw(g, n), 4)
        top == FAdd(Milli(500), FMul(Draw(g, n + 1), Milli(300)))
        remaining == Scale - top
        \* the others draw in index order
        nth(i) == IF i < dominant THEN i + 1 ELSE i
        probs == [i \in 0..3 |->
                    IF i = dominant THEN top
                    ELSE FAdd(FDiv(remaining, 3 * Scale),
                              FMul(Draw(g, n + 1 + nth(i)), Milli(50)))]
        sum == Sum4(probs)
    IN  [i \in 0..3 |-> FDiv(probs[i], sum)]

\* mutant: the partner's x drawn below the height, its y below the width
gpu_partner_transposed(w, h, g, n) ==
    IF FLt(Draw(g, n), Milli(880))
    THEN Some(u32(gen_range(Draw(g, n + 1), h)), u32(gen_range(Draw(g, n + 2), w)))
    ELSE None

gpu_partner(w, h, g, n) ==
    IF FLt(Draw(g, n), Milli(880))
    THEN Some(u32(gen_range(Draw(g, n + 1), w)), u32(gen_range(Draw(g, n + 2), h)))
    ELSE None

gpu_cell_draws(g, n) == IF FLt(Draw(g, n + 5), Milli(880)) THEN 8 ELSE 6

\* ---- u32 arithmetic of pcg_hash, on <<high half, low half>>
RECURSIVE bit_xor(_, _)
bit_xor(a, b) ==
    IF a = 0 THEN b
    ELSE IF b = 0 THEN a
    ELSE (IF (a % 2) # (b % 2) THEN 1 ELSE 0) + 2 * bit_xor(a \div 2, b \div 2)

U32Xor(u, v) == <<bit_xor(u[1], v[1]), bit_xor(u[2], v[2])>>

\* u.wrapping_add(v)
U32Add(u, v) ==
    LET lo == u[2] + v[2]
    IN  <<(u[1] + v[1] + lo \div 65536) % 65536, lo % 65536>>

\* the 32-bit product of two 16-bit halves, one byte of y at a time
Mul16(x, y) ==
    LET t == x * (y \div 256)
        s == x * (y % 256)
    IN  U32Add(<<t \div 256, (t % 256) * 256>>, <<s \div 65536, s % 65536>>)

\* u.wrapping_mul(v)
wrapping_mul(u, v) ==
    LET ll == Mul16(u[2], v[2])
        cross == Mul16(u[1], v[2])[2] + Mul16(u[2], v[1])[2]
    IN  <<(ll[1] + cross) % 65536, ll[2]>>

RECURSIVE Pow2(_)
Pow2(k) == IF k = 0 THEN 1 ELSE 2 * Pow2(k - 1)

\* u >> k, for k in 0..31
U32Shr(u, k) ==
    IF k >= 16 THEN <<0, u[1] \div Pow2(k - 16)>>
    ELSE <<u[1] \div Pow2(k),
           (u[2] \div Pow2(k)) + (u[1] % Pow2(k)) * Pow2(16 - k)>>

\* the literals 747796405, 2891336453 and 277803737
PcgMultiplier == <<11410, 30645>>

PcgIncrement == <<44118, 19205>>

PcgOutput == <<4238, 62169>>

pcg_hash(input) ==
    LET state == U32Add(wrapping_mul(input, PcgMultiplier), PcgIncrement)
        word == wrapping_mul(
                    U32Xor(U32Shr(state, U32Shr(state, 28)[2] + 4), state),
                    PcgOutput)
    IN  U32Xor(U32Shr(word, 22), word)

\* mutant: the seed of the transposed position
rng_seed_transposed(x, y) == pcg_hash(U32Add(u32(y), pcg_hash(u32(x))))

\* the seed of the cell pushed for the loop variables x and y
rng_seed(x, y) == pcg_hash(U32Add(u32(x), pcg_hash(u32(y))))

\* mutant: the clock started at the dominant amplitude, time stopped
GpuCell_new_started(probabilities, partner, seed) ==
    [amplitudes |-> [i \in 0..3 |-> FSqrt(probabilities[i])],
     phases |-> [i \in 0..3 |-> 0],
     velocities |-> [i \in 0..3 |-> 0],
     local_time |-> FSqrt(probabilities[0]),
     time_dilation |-> 0,
     entangled_partner |-> encode_partner(partner),
     rng_state |-> seed]

\* GpuCell::new
GpuCell_new(probabilities, partner, seed) ==
    [amplitudes |-> [i \in 0..3 |-> FSqrt(probabilities[i])],
     phases |-> [i \in 0..3 |-> 0],
     velocities |-> [i \in 0..3 |-> 0],
     local_time |-> 0,
     time_dilation |-> Scale,
     entangled_partner |-> encode_partner(partner),
     rng_state |-> seed]

\* `for x in x..width` of row y, the generator at draw n
RECURSIVE gpu_row(_, _, _, _, _, _)
gpu_row(w, h, g, n, y, x) ==
    IF x >= w THEN <<>>
    ELSE <<GpuCell_new(gpu_probs(g, n), gpu_partner(w, h, g, n + 5), rng_seed(x, y))>>
         \o gpu_row(w, h, g, n + gpu_cell_draws(g, n), y, x + 1)

RECURSIVE gpu_draws_used(_, _, _)
gpu_draws_used(g, n, left) ==
    IF left = 0 THEN n ELSE gpu_draws_used(g, n + gpu_cell_draws(g, n), left - 1)

\* `for y in y..height`: the cells pushed, row after row
RECURSIVE gpu_rows(_, _, _, _, _)
gpu_rows(w, h, g, n, y) ==
    IF y >= h THEN <<>>
    ELSE gpu_row(w, h, g, n, y, 0)
         \o gpu_rows(w, h, g, gpu_draws_used(g, n, w), y + 1)

\* size and alignment in bytes of the scalar types of the record's fields
size_of_scalar(ty) == CASE ty = "f32" -> 4 [] ty = "u32" -> 4 [] ty = "f64" -> 8

align_of(ty) == size_of_scalar(ty)

\* mutant: local_time kept in double precision
GpuCell_fields_wide ==
    << [name |-> "amplitudes", ty |-> "f32", len |-> 4],
       [name |-> "phases", ty |-> "f32", len |-> 4],
       [name |-> "velocities", ty |-> "f32", len |-> 4],
       [name |-> "time_dilation", ty |-> "f32", len |-> 1],
       [name |-> "local_time", ty |-> "f64", len |-> 1],
       [name |-> "entangled_partner", ty |-> "u32", len |-> 1],
       [name |-> "rng_state", ty |-> "u32", len |-> 1] >>

\* struct GpuCell: the fields in declaration order
GpuCell_fields ==
    << [name |-> "amplitudes", ty |-> "f32", len |-> 4],
       [name |-> "phases", ty |-> "f32", len |-> 4],
       [name |-> "velocities", ty |-> "f32", len |-> 4],
       [name |-> "local_time", ty |-> "f32", len |-> 1],
       [name |-> "time_dilation", ty |-> "f32", len |-> 1],
       [name |-> "entangled_partner", ty |-> "u32", len |-> 1],
       [name |-> "rng_state", ty |-> "u32", len |-> 1] >>

AlignUp(n, a) == ((n + a - 1) \div a) * a

\* #[repr(C)]: each field at the next offset aligned for its type, in
\* declaration order
RECURSIVE field_offset(_, _)
field_offset(fields, k) ==
    IF k = 1
    THEN 0
    ELSE AlignUp(field_offset(fields, k - 1)
                    + fields[k - 1].len * size_of_scalar(fields[k - 1].ty),
                 align_of(fields[k].ty))

RECURSIVE max_align(_, _)
max_align(fields, k) ==
    IF k = 0
    THEN 1
    ELSE LET a == align_of(fields[k].ty)
             m == max_align(fields, k - 1)
         IN  IF a > m THEN a ELSE m

\* std::mem::size_of of a #[repr(C)] struct: the end of the last field,
\* rounded up to the struct's alignment
size_of(fields) ==
    LET n == Len(fields)
    IN  AlignUp(field_offset(fields, n) + fields[n].len * size_of_scalar(fields[n].ty),
                max_align(fields, n))

\* the scalars of the record by byte offset: <<field, index>> at the offset
\* of each scalar
scalars_at(fields) ==
    {<<field_offset(fields, k) + e * size_of_scalar(fields[k].ty),
       fields[k].name, e>> :
        k \in 1..Len(fields), e \in 0..3} \ 
    {<<field_offset(fields, k) + e * size_of_scalar(fields[k].ty),
       fields[k].name, e>> :
        k \in {f \in 1..Len(fields) : fields[f].len = 1}, e \in 1..3}

\* buffer_size in GridBuffers::new
buffer_size(cell_count) == cell_count * size_of(GpuCell_fields)


\* buffer contents: never written, the initial upload, or the result of
\* `steps` compute passes over what was read
Unwritten == [written |-> FALSE, from_upload |-> FALSE, steps |-> 0]

Uploaded == [written |-> TRUE, from_upload |-> TRUE, steps |-> 0]

dispatch(input) ==
    [written |-> TRUE, from_upload |-> input.from_upload, steps |-> input.steps + 1]

get_io_buffers(rfa) == IF rfa THEN <<"a", "b">> ELSE <<"b", "a">>

get_render_buffer(rfa) == IF rfa THEN "b" ELSE "a"

\* mutant: the flag left as it was
swap_kept(rfa) == rfa

swap(rfa) == ~rfa

\* mutant: the counter stops at u32::MAX
wrapping_add_saturating(u, k) ==
    IF u = <<65535, 65535>> THEN u ELSE <<u[1] + (u[2] + k) \div 65536, (u[2] + k) % 65536>>

wrapping_add(u, k) ==
    LET lo == u[2] + k
    IN  <<(u[1] + lo \div 65536) % 65536, lo % 65536>>

SurfaceOutcomes == {"Ok", "Lost", "Outdated", "Timeout", "OutOfMemory"}

\* ---------------------------------------------------------- view state
\* The f32 fields of ViewState in units of 1/Scale; they stay finite and
\* far from the limits of f32 over the key sequences explored, and the
\* pan leaves the centre negative before the wrap, so they are plain
\* signed quantities here.  The u32 flags are 32-bit words.

MaxKeys == 3

GRID_WIDTH == 512

GRID_HEIGHT == 512

DEFAULT_VIEW_ZOOM == 256 * Scale

VIEW_PAN_SPEED == 10 * Scale

\* x * VIEW_ZOOM_SPEED and x / VIEW_ZOOM_SPEED, VIEW_ZOOM_SPEED = 1.1
zoom_out(x) == (x * 11) \div 10

zoom_in(x) == (x * 10) \div 11

\* u32 subtraction, wrapping as the release build does
U32Sub(u, v) ==
    LET lo == u[2] - v[2]
        borrow == IF lo < 0 THEN 1 ELSE 0
    IN  <<(u[1] - v[1] - borrow) % 65536, lo % 65536>>

f32_max(a, b) == IF a > b THEN a ELSE b

f32_min(a, b) == IF a < b THEN a ELSE b

\* ViewState::default
ViewState_default ==
    [center_x |-> (GRID_WIDTH * Scale) \div 2,
     center_y |-> (GRID_HEIGHT * Scale) \div 2,
     zoom |-> DEFAULT_VIEW_ZOOM,
     render_mode |-> u32(0),
     phase_visualization |-> u32(0),
     time_viz_strength |-> Milli(500)]

KeyCodes ==
    {"Space", "KeyP", "KeyT", "KeyW", "ArrowUp", "KeyS", "ArrowDown",
     "KeyA", "ArrowLeft", "KeyD", "ArrowRight", "KeyQ", "Minus", "KeyE",
     "Equal", "KeyR", "BracketLeft", "BracketRight", "Tab"}

\* mutant: the flag counted up
toggle_counted(flag) == U32Add(flag, u32(1))

\* 1 - self.view.render_mode, 1 - self.view.phase_visualization
toggle(flag) == U32Sub(u32(1), flag)

\* the match of handle_key
key_match(v, key_code) ==
    CASE key_code = "Space" ->
            [v EXCEPT !.render_mode = toggle(v.render_mode)]
      [] key_code = "KeyP" ->
            [v EXCEPT !.phase_visualization = toggle(v.phase_visualization)]
      [] key_code = "KeyT" ->
            [v EXCEPT !.time_viz_strength =
                IF v.time_viz_strength > 0 THEN 0 ELSE Milli(500)]
      [] key_code \in {"KeyW", "ArrowUp"} ->
            [v EXCEPT !.center_y = v.center_y - VIEW_PAN_SPEED]
      [] key_code \in {"KeyS", "ArrowDown"} ->
            [v EXCEPT !.center_y = v.center_y + VIEW_PAN_SPEED]
      [] key_code \in {"KeyA", "ArrowLeft"} ->
            [v EXCEPT !.center_x = v.center_x - VIEW_PAN_SPEED]
      [] key_code \in {"KeyD", "ArrowRight"} ->
            [v EXCEPT !.center_x = v.center_x + VIEW_PAN_SPEED]
      [] key_code \in {"KeyQ", "Minus"} ->
            [v EXCEPT !.zoom = zoom_out(v.zoom)]
      [] key_code \in {"KeyE", "Equal"} ->
            [v EXCEPT !.zoom = zoom_in(v.zoom)]
      [] key_code = "KeyR" -> ViewState_default
      [] key_code = "BracketLeft" ->
            [v EXCEPT !.time_viz_strength =
                f32_max(v.time_viz_strength - Milli(100), 0)]
      [] key_code = "BracketRight" ->
            [v EXCEPT !.time_viz_strength =
                f32_min(v.time_viz_strength + Milli(100), Scale)]
      [] OTHER -> v

\* App::handle_key: the match, then the wrap of the view centre
handle_key(v, key_code) ==
    LET m == key_match(v, key_code)
    IN  [m EXCEPT !.center_x = rem_euclid(m.center_x, GRID_WIDTH * Scale),
                  !.center_y = rem_euclid(m.center_y, GRID_HEIGHT * Scale)]

DevInit ==
    /\ HostOff
    /\ NbIdle
    /\ CodecIdle
    /\ \E wh \in Shapes : dev_width = wh[1] /\ dev_height = wh[2]
    \* the thread's generator, anywhere in its stream
    /\ \E seed \in TapeIds : \E n0 \in 0..(Len(Tapes[seed]) - 1) :
          dev_rng = [Seeded(seed, 0) EXCEPT !.n = n0]
    /\ gpu_cells = <<>>
    /\ buffers = <<>>
    /\ read_from_a = TRUE
    /\ frame_number = <<0, 0>>
    /\ frames = <<>>
    /\ last_surface = "none"
    /\ dev_phase = "start"
    /\ view = ViewState_default
    /\ keys = <<>>

\* simulation::Grid::new
GridNewDevice ==
    /\ dev_phase = "start"
    /\ gpu_cells' = gpu_rows(dev_width, dev_height, dev_rng.tape, dev_rng.n, 0)
    /\ dev_rng' = [dev_rng EXCEPT !.n =
                      Advance(dev_rng.tape, 0,
                              gpu_draws_used(dev_rng.tape, dev_rng.n,
                                             dev_width * dev_height))]
    /\ dev_phase' = "grid"
    /\ UNCHANGED <<dev_width, dev_height, buffers, read_from_a, frame_number,
                   frames, last_surface, view, keys>>
    /\ UNCHANGED <<hostVars, nbVars, codecVars>>

\* mutant: the buffers created and filled without the length check
GridBuffersNew_unchecked ==
    /\ dev_phase = "grid"
    /\ buffers' = [b \in {"a", "b"} |-> IF b = "a" THEN Uploaded ELSE Unwritten]
    /\ read_from_a' = TRUE
    /\ dev_phase' = "ready"
    /\ UNCHANGED <<dev_width, dev_height, dev_rng, gpu_cells, frame_number,
                   frames, last_surface, view, keys>>
    /\ UNCHANGED <<hostVars, nbVars, codecVars>>

\* GridBuffers::new
GridBuffersNew ==
    /\ dev_phase = "grid"
    /\ IF Len(gpu_cells) # dev_width * dev_height
       THEN /\ dev_phase' = "panic: Initial data size mismatch"
            /\ UNCHANGED <<buffers, read_from_a>>
       ELSE /\ buffers' = [b \in {"a", "b"} |-> IF b = "a" THEN Uploaded ELSE Unwritten]
            /\ read_from_a' = TRUE
            /\ dev_phase' = "ready"
    /\ UNCHANGED <<dev_width, dev_height, dev_rng, gpu_cells, frame_number,
                   frames, last_surface, view, keys>>
    /\ UNCHANGED <<hostVars, nbVars, codecVars>>

\* mutant: the frame is counted before the surface is acquired
Render_counted(surface) ==
    /\ dev_phase = "ready"
    /\ Len(frames) < MaxFrames
    /\ last_surface' = surface
    /\ frame_number' = wrapping_add(frame_number, 1)
    /\ IF surface # "Ok"
       THEN UNCHANGED <<buffers, read_from_a, frames>>
       ELSE \E io \in {get_io_buffers(read_from_a)} :
               /\ buffers' = [buffers EXCEPT ![io[2]] = dispatch(buffers[io[1]])]
               /\ read_from_a' = swap(read_from_a)
               /\ frames' = Append(frames,
                     [input |-> io[1], output |-> io[2],
                      read |-> buffers[io[1]],
                      wrote |-> buffers'[io[2]],
                      render |-> get_render_buffer(read_from_a'),
                      frame_number |-> frame_number])
    /\ UNCHANGED <<dev_width, dev_height, dev_rng, gpu_cells, dev_phase, view, keys>>
    /\ UNCHANGED <<hostVars, nbVars, codecVars>>

\* App::render, one frame
Render(surface) ==
    /\ dev_phase = "ready"
    /\ Len(frames) < MaxFrames
    /\ last_surface' = surface
    /\ IF surface # "Ok"
       THEN UNCHANGED <<buffers, read_from_a, frame_number, frames>>
       ELSE \E io \in {get_io_buffers(read_from_a)} :
               /\ buffers' = [buffers EXCEPT ![io[2]] = dispatch(buffers[io[1]])]
               /\ read_from_a' = swap(read_from_a)
               /\ frames' = Append(frames,
                     [input |-> io[1], output |-> io[2],
                      read |-> buffers[io[1]],
                      wrote |-> buffers'[io[2]],
                      render |-> get_render_buffer(read_from_a'),
                      frame_number |-> frame_number])
               /\ frame_number' = wrapping_add(frame_number, 1)
    /\ UNCHANGED <<dev_width, dev_height, dev_rng, gpu_cells, dev_phase, view, keys>>
    /\ UNCHANGED <<hostVars, nbVars, codecVars>>

DevNext ==
    \/ GridNewDevice
    \/ GridBuffersNew
    \/ \E surface \in SurfaceOutcomes : Render(surface)

SpecDevice == DevInit /\ [][DevNext]_vars

\* ------------------------------------- a tick over a uniform grid
MaxFixedSide == 3

\* probability vectors: the first three components in thousandths, the
\* fourth what is left to 1
UniformVectors ==
    { <<250, 250, 250>>, <<1000, 0, 0>>, <<400, 300, 200>> }

Normalized4(v) ==
    [c \in 0..3 |->
        IF c < 3 THEN Milli(v[c + 1])
        ELSE Scale - (Milli(v[1]) + Milli(v[2]) + Milli(v[3]))]

\* the generator whose every draw is 0.0: the noise rng.gen() *
\* randomness_factor it yields is zero
ZeroTape == CHOOSE g \in TapeIds : \A k \in 1..Len(Tapes[g]) : Tapes[g][k] = 0

\* a grid whose cells all hold the same vector and no partner, every
\* thread's generator drawing zeros
FixedInit ==
    /\ \E w \in 1..MaxFixedSide, h \in 1..MaxFixedSide : width = w /\ height = h
    /\ \E v \in UniformVectors :
          cells = [i \in Rows |-> [j \in Cols |->
                      CellState(Normalized4(v), None)]]
    /\ cells0 = cells
    /\ cells_arc = <<>>
    /\ phase = "idle"
    /\ tick = 0
    /\ row_next = <<>>
    /\ row_owner = <<>>
    /\ thr_row = [t \in Threads |-> -1]
    /\ rng = [k \in {0} \cup Threads |-> [tape |-> ZeroTape, n |-> 0]]
    /\ total_prob = <<>>
    /\ distribution = <<>>
    /\ NbIdle
    /\ CodecIdle
    /\ DevIdle

FixedNext ==
    \/ UpdateStart
    \/ \E t \in Threads, i \in Rows : TakeRow(t, i)
    \/ \E t \in Threads : CellStep(t)
    \/ UpdateJoin
    \/ Diagnose

SpecFixedPoint == FixedInit /\ [][FixedNext]_vars

\* ------------------------------------------- GridBuffers::new alone
\* GridBuffers::new(width, height, initial_data) with the cells of a grid
\* built for dimensions that need not be the ones handed over
BuffersInit ==
    /\ HostOff
    /\ NbIdle
    /\ CodecIdle
    /\ \E wh \in Shapes : dev_width = wh[1] /\ dev_height = wh[2]
    /\ \E seed \in TapeIds, made \in Shapes :
          /\ gpu_cells = gpu_rows(made[1], made[2], seed, 0, 0)
          /\ dev_rng = [tape |-> seed,
                        n |-> Advance(seed, 0,
                                gpu_draws_used(seed, 0, made[1] * made[2]))]
    /\ buffers = <<>>
    /\ read_from_a = TRUE
    /\ frame_number = <<0, 0>>
    /\ frames = <<>>
    /\ last_surface = "none"
    /\ dev_phase = "grid"
    /\ view = ViewState_default
    /\ keys = <<>>

BuffersNext == GridBuffersNew

SpecBuffersNew == BuffersInit /\ [][BuffersNext]_vars

\* ------------------------------------ calculate_state_distribution alone
\* probability vectors with the maximum at index 0, 1, 2 and 3, and one
\* with indices 0 and 3 tied (first three components, in thousandths)
DiagVectors ==
    { <<700, 100, 100>>, <<100, 700, 100>>, <<100, 100, 700>>,
      <<100, 100, 100>>, <<500, 0, 0>> }

\* a grid of any of the shapes, any of the vectors in each cell
DiagInit ==
    /\ \E wh \in Shapes : width = wh[1] /\ height = wh[2]
    /\ cells \in [Rows -> [Cols -> {CellState(Normalized4(v), None) : v \in DiagVectors}]]
    /\ cells0 = cells
    /\ cells_arc = <<>>
    /\ phase = "idle"
    /\ tick = 0
    /\ row_next = <<>>
    /\ row_owner = <<>>
    /\ thr_row = [t \in Threads |-> -1]
    /\ rng = [k \in {0} \cup Threads |-> Seeded(1, k)]
    /\ total_prob = <<>>
    /\ distribution = <<>>
    /\ NbIdle
    /\ CodecIdle
    /\ DevIdle

DiagNext == Diagnose

SpecDiagnose == DiagInit /\ [][DiagNext]_vars

\* ============================================ App::render across the wrap
\* The frames of a running application: from the state resumed() leaves
\* behind, and from the state 2^32 - 2 successful frames later, two frames
\* before frame_number wraps.  Each successful frame swaps once and adds 1,
\* so after 2^32 - 2 of them read_from_a is back at true and buffer_a holds
\* the last pass; the pass counts of that start are counted from it.

FramesBefore == <<65535, 65534>>

Elapsed ==
    { [frame_number |-> <<0, 0>>, read_from_a |-> TRUE,
       a |-> Uploaded, b |-> Unwritten],
      [frame_number |-> FramesBefore, read_from_a |-> TRUE,
       a |-> [written |-> TRUE, from_upload |-> TRUE, steps |-> 0],
       b |-> [written |-> TRUE, from_upload |-> TRUE, steps |-> -1]] }

RenderInit ==
    /\ HostOff
    /\ NbIdle
    /\ CodecIdle
    /\ \E wh \in Shapes, seed \in TapeIds :
          /\ dev_width = wh[1]
          /\ dev_height = wh[2]
          /\ gpu_cells = gpu_rows(wh[1], wh[2], seed, 0, 0)
          /\ dev_rng = [tape |-> seed,
                        n |-> Advance(seed, 0,
                                gpu_draws_used(seed, 0, wh[1] * wh[2]))]
    /\ \E e \in Elapsed :
          /\ frame_number = e.frame_number
          /\ read_from_a = e.read_from_a
          /\ buffers = [b \in {"a", "b"} |-> IF b = "a" THEN e.a ELSE e.b]
    /\ frames = <<>>
    /\ last_surface = "none"
    /\ dev_phase = "ready"
    /\ view = ViewState_default
    /\ keys = <<>>

RenderNext == \E surface \in SurfaceOutcomes : Render(surface)

SpecRender == RenderInit /\ [][RenderNext]_vars

\* ===================================================== handle_key alone
\* The keys pressed on a running application, from the view App::new
\* gives it; frames are left out.

ViewInit ==
    /\ HostOff
    /\ NbIdle
    /\ CodecIdle
    /\ GpuOff
    /\ view = ViewState_default
    /\ keys = <<>>

\* WindowEvent::KeyboardInput with a pressed key other than Escape
HandleKey(key_code) ==
    /\ view # <<>>
    /\ Len(keys) < MaxKeys
    /\ view' = handle_key(view, key_code)
    /\ keys' = Append(keys, key_code)
    /\ UNCHANGED <<dev_width, dev_height, dev_rng, gpu_cells, buffers,
                   read_from_a, frame_number, frames, last_surface, dev_phase>>
    /\ UNCHANGED <<hostVars, nbVars, codecVars>>

ViewNext == \E key_code \in KeyCodes : HandleKey(key_code)

SpecView == ViewInit /\ [][ViewNext]_vars

\* ================================================================ claims
Tolerance == Milli(1)

Abs(x) == IF x < 0 THEN -x ELSE x

\* 4 non-negative components that sum to 1 within the tolerance
Normalized(p) ==
    /\ \A i \in 0..3 : p[i] >= 0
    /\ Abs(p[0] + p[1] + p[2] + p[3] - Scale) <= Tolerance

GridNormalized(grid) ==
    \A rc \in Coords(grid) : Normalized(At(grid, rc).state_probabilities)

InUpdate == cells_arc # <<>>

\* C1: snapshot isolation. Inside update every cell already written is the
\* update rule applied to the clone (own cell, partner and neighbours all
\* taken from cells_arc) for some position of a pool thread's generator, and
\* every cell not yet written still equals the clone: nothing a task wrote
\* during the tick has entered another cell's new state.
C1_SnapshotIsolation ==
    InUpdate =>
        \A i \in Rows, j \in Cols :
            IF j < row_next[i]
            THEN \E t \in Threads : \E n \in 0..(Len(Tapes[rng[t].tape]) - 1) :
                    cells[i][j] =
                        calculate_new_state(cells_arc, cells_arc[i][j],
                            get_neighbors(cells_arc, i, j, width, height),
                            rng[t].tape, n).new_state
            ELSE cells[i][j] = cells_arc[i][j]

\* both pool threads are in the middle of a row, each has written a cell
\* that differs from the clone, and each still has a cell to compute whose
\* neighbours include the other's written cell
C1_Witness ==
    /\ phase = "running"
    /\ \A t \in Threads : thr_row[t] # -1 /\ row_next[thr_row[t]] = 1
    /\ \A i \in Rows : cells[i][0] # cells_arc[i][0]

\* C2: from a grid whose cells are normalized, every cell stays normalized
\* (non-negative components, sum 1 within 1e-3) through every tick, and the
\* divisor of every renormalization is strictly positive.
C2_ProbabilityInvariant ==
    GridNormalized(cells0) =>
        /\ GridNormalized(cells)
        /\ total_prob # <<>> => total_prob[1] > 0

C2_Witness ==
    /\ tick >= 2
    /\ GridNormalized(cells0)
    /\ cells # cells0
    /\ total_prob # <<>>
    /\ \E rc \in Coords(cells) : At(cells, rc).entangled_partner # None

\* C5: every partner coordinate Grid::new assigned is a valid index pair
\* for grid[partner_x][partner_y] (first index a row, second a column), so
\* the lookup never goes out of range during a tick.
C5_PartnerInBounds ==
    /\ \A rc \in Coords(cells) :
          LET partner == At(cells, rc).entangled_partner
          IN  partner # None => partner[1] < height /\ partner[2] < width
    /\ phase # "panic: index out of bounds"

\* the lowest index holding the maximum
FirstMaxIndex(p) ==
    CHOOSE i \in 0..3 :
        /\ \A k \in 0..3 : p[k] <= p[i]
        /\ \A k \in 0..(i - 1) : p[k] < p[i]

FirstIndexCount(grid, S) ==
    Cardinality({rc \in Coords(grid) : FirstMaxIndex(At(grid, rc).state_probabilities) \in S})

\* C8: the histogram classifies every cell by the first (lowest) index
\* among its maximal components.
C8_FirstIndexWins ==
    distribution # <<>> =>
        /\ distribution.one = FirstIndexCount(cells, {0})
        /\ distribution.minus_one = FirstIndexCount(cells, {1})
        /\ distribution.complex = FirstIndexCount(cells, {2, 3})

ExpectedOffsets ==
    << <<-1, -1>>, <<-1, 0>>, <<-1, 1>>, <<0, -1>>,
       <<0, 1>>, <<1, -1>>, <<1, 0>>, <<1, 1>> >>

\* x wrapped into 0..n-1, for x in -1..n
Wrapped(x, n) == IF x < 0 THEN x + n ELSE IF x >= n THEN x - n ELSE x

ExpectedIndex(k) ==
    <<Wrapped(nb_at[1] + ExpectedOffsets[k][1], height),
      Wrapped(nb_at[2] + ExpectedOffsets[k][2], width)>>

\* C6: get_neighbors returns exactly 8 cells; the k-th is the cell at the
\* k-th row-major offset of {-1,0,1}^2 minus (0,0), wrapped around both
\* axes; every index is in bounds; the neighbours of (0,0) include the cell
\* at (height-1, width-1).
C6_ToroidalNeighbors ==
    nb_out # <<>> =>
        LET r == nb_out[1]
        IN  /\ ~r.panic
            /\ Len(r.at) = 8
            /\ Len(r.neighbors) = 8
            /\ \A k \in 1..8 :
                  /\ r.at[k] = ExpectedIndex(k)
                  /\ r.at[k][1] \in 0..(height - 1)
                  /\ r.at[k][2] \in 0..(width - 1)
                  /\ r.neighbors[k] = cells[ExpectedIndex(k)[1]][ExpectedIndex(k)[2]]
            /\ nb_at = <<0, 0>> =>
                  \E k \in 1..8 : r.at[k] = <<height - 1, width - 1>>

\* the lookup at the corner of a grid wide enough that the wrapped indices
\* differ from the unwrapped ones
C6_Witness ==
    /\ nb_out # <<>>
    /\ nb_at = <<0, 0>>
    /\ width >= 3
    /\ height >= 3
    /\ ~nb_out[1].panic

\* C7 as stated: on every grid, none of the 8 cells returned is the cell at
\* (row, col).
C7_CentreExcluded ==
    nb_out # <<>> => \A k \in DOMAIN nb_out[1].at : nb_out[1].at[k] # nb_at

\* C7 amended: on a grid at least 2 wide and 2 high none of the cells
\* returned is the cell at (row, col); on a grid 1 wide or 1 high the
\* wrapped offsets lead back to (row, col) itself.
C7_CentreExcludedWide ==
    nb_out # <<>> =>
        IF width >= 2 /\ height >= 2
        THEN \A k \in DOMAIN nb_out[1].at : nb_out[1].at[k] # nb_at
        ELSE \E k \in DOMAIN nb_out[1].at : nb_out[1].at[k] = nb_at

C7_Witness ==
    /\ nb_out # <<>>
    /\ width = 2
    /\ height >= 2
    /\ Len(nb_out[1].at) = 8

In16(u) == u[1] = 0

\* C9: for x, y <= 65535 other than (65535, 65535), decoding the encoding
\* of Some((x, y)) gives Some((x, y)) back.
C9_RoundTrip ==
    (/\ codec_in.kind = "partner"
     /\ codec_in.partner # None
     /\ decoded # <<>>
     /\ In16(codec_in.partner[1])
     /\ In16(codec_in.partner[2])
     /\ ~(codec_in.partner[1] = <<0, 65535>> /\ codec_in.partner[2] = <<0, 65535>>))
    => decoded[1] = codec_in.partner

\* the second pair of test_large_coords, encoded and decoded
C9_Witness ==
    /\ codec_in.kind = "partner"
    /\ codec_in.partner = Some(<<0, 65535>>, <<0, 65534>>)
    /\ decoded # <<>>

\* C10: encode_partner(None) is 0xFFFFFFFF, decode_partner(0xFFFFFFFF) is
\* None, and decode_partner is None for no other word.
C10_Sentinel ==
    /\ (codec_in.kind = "partner" /\ codec_in.partner = None /\ encoded # <<>>)
          => encoded[1] = <<65535, 65535>>
    /\ decoded # <<>> => (decoded[1] = None <=> encoded[1] = <<65535, 65535>>)

\* None encoded and decoded again
C10_Witness ==
    /\ codec_in.kind = "partner"
    /\ codec_in.partner = None
    /\ decoded = <<None>>

SquaredAmplitudes(c) == Sum4([i \in 0..3 |-> FMul(c.amplitudes[i], c.amplitudes[i])])

\* C4: every frame's input and output buffers differ, each frame's input is
\* the buffer the frame before wrote and its output the buffer the frame
\* before read, the first frame reads buffer A holding the initial upload,
\* and no frame reads a buffer that was never written.
C4_DoubleBuffering ==
    /\ \A k \in 1..Len(frames) :
          /\ frames[k].input # frames[k].output
          /\ frames[k].read.written
          /\ frames[k].read.from_upload
          /\ k = 1 => frames[k].input = "a" /\ frames[k].read = Uploaded
          /\ k > 1 =>
                /\ frames[k].input = frames[k - 1].output
                /\ frames[k].output = frames[k - 1].input
                /\ frames[k].read = frames[k - 1].wrote
    /\ dev_phase = "ready" => buffers[get_io_buffers(read_from_a)[1]].written

\* three frames computed: the third reads buffer A again, two passes on
C4_Witness ==
    /\ Len(frames) = 3
    /\ frames[3].read.steps = 2
    /\ frames[3].input = "a"

\* C3: after Grid::new every cell is normalized: the 4 probabilities of a
\* host cell sum to 1, the squared amplitudes of a device cell sum to 1
\* within 0.01.
C3_InitNormalized ==
    /\ phase = "idle" /\ tick = 0 => GridNormalized(cells)
    /\ \A k \in 1..Len(gpu_cells) :
          Abs(SquaredAmplitudes(gpu_cells[k]) - Scale) <= Milli(10)

\* the device half of C3 alone
C3_DeviceNormalized ==
    \A k \in 1..Len(gpu_cells) :
        Abs(SquaredAmplitudes(gpu_cells[k]) - Scale) <= Milli(10)

\* C11: among the pairs with x, y <= 65535, (65535, 65535) and no other
\* encodes to the sentinel 0xFFFFFFFF, and decoding its encoding gives None.
C11_Unrepresentable ==
    (/\ codec_in.kind = "partner"
     /\ codec_in.partner # None
     /\ In16(codec_in.partner[1])
     /\ In16(codec_in.partner[2])
     /\ encoded # <<>>)
    => /\ encoded[1] = <<65535, 65535>>
             <=> codec_in.partner = Some(<<0, 65535>>, <<0, 65535>>)
       /\ (codec_in.partner = Some(<<0, 65535>>, <<0, 65535>>) /\ decoded # <<>>)
             => decoded[1] = None

\* (65535, 65535) encoded and decoded
C11_Witness ==
    /\ codec_in.kind = "partner"
    /\ codec_in.partner = Some(<<0, 65535>>, <<0, 65535>>)
    /\ encoded = <<NO_ENTANGLEMENT>>
    /\ decoded = <<None>>

\* C12: at every moment after Grid::new, every cell's entangled_partner is
\* the one Grid::new gave it, and the grid still has `height` rows of
\* `width` cells, the dimensions it was built with.
C12_EntanglementKept ==
    phase # "start" =>
        /\ DOMAIN cells = Rows
        /\ DOMAIN cells0 = Rows
        /\ \A i \in Rows : DOMAIN cells[i] = Cols /\ DOMAIN cells0[i] = Cols
        /\ Cardinality(Coords(cells)) = width * height
        /\ \A rc \in Coords(cells0) :
              At(cells, rc).entangled_partner = At(cells0, rc).entangled_partner

\* after a tick over a grid holding a cell with a partner and one without
C12_Witness ==
    /\ tick >= 1
    /\ phase = "idle"
    /\ cells # cells0
    /\ \E rc \in Coords(cells) : At(cells, rc).entangled_partner # None
    /\ \E rc \in Coords(cells) : At(cells, rc).entangled_partner = None

\* C13: on a grid whose cells all hold the same normalized vector and no
\* partner, with zero noise, every cell's distribution stays what it was,
\* during and after each tick.
C13_FixedPoint ==
    \A rc \in Coords(cells) : At(cells, rc) = At(cells0, rc)

\* one tick done on the 3x3 grid of [0.25, 0.25, 0.25, 0.25]
C13_Witness ==
    /\ tick >= 1
    /\ width = 3
    /\ height = 3
    /\ \A c \in 0..2 : cells0[0][0].state_probabilities[c] = Milli(250)

Finite(p) == \A c \in 0..3 : p[c] >= 0

\* the cell thread t is about to update, read from the snapshot
Current(t) == cells_arc[thr_row[t]][row_next[thr_row[t]]]

\* the i-th draw of the entanglement loop of thread t's next step is below
\* randomness_factor
Fires(t, i) == Draw(rng[t].tape, rng[t].n + i) < Milli(10)

\* C14: in every step of a tick, for a cell A with partner B (both holding
\* numbers), the value of component i after the entanglement block is the
\* mean of A's and B's pre-tick components i (to the nearest unit) when
\* synchronization fires for i, and A's pre-tick component otherwise; a
\* cell without a partner keeps all four components at that step.
C14_Synchronization ==
    \A t \in Threads :
        (/\ phase = "running"
         /\ thr_row[t] # -1
         /\ PartnerInRange(cells_arc, Current(t))
         /\ Finite(Current(t).state_probabilities))
        => LET A == Current(t)
               synced == synchronize(cells_arc, A, rng[t].tape, rng[t].n)
           IN  IF A.entangled_partner = None
               THEN synced = A.state_probabilities
               ELSE LET B == cells_arc[A.entangled_partner[1]][A.entangled_partner[2]]
                    IN  Finite(B.state_probabilities) =>
                           \A i \in 0..3 :
                              IF Fires(t, i)
                              THEN Abs(2 * synced[i]
                                       - (A.state_probabilities[i]
                                          + B.state_probabilities[i])) <= 1
                              ELSE synced[i] = A.state_probabilities[i]

\* a thread about to update a cell whose partner is another cell holding
\* other numbers, one component firing and another one not
C14_Witness ==
    \E t \in Threads :
        /\ phase = "running"
        /\ thr_row[t] # -1
        /\ Current(t).entangled_partner # None
        /\ PartnerInRange(cells_arc, Current(t))
        /\ Finite(Current(t).state_probabilities)
        /\ LET B == cells_arc[Current(t).entangled_partner[1]][Current(t).entangled_partner[2]]
           IN  /\ Finite(B.state_probabilities)
               /\ \E i \in 0..3 :
                     /\ Fires(t, i)
                     /\ B.state_probabilities[i] # Current(t).state_probabilities[i]
        /\ \E i \in 0..3 : ~Fires(t, i)

\* C15: no renormalization division silently yields NaN or an infinity: no
\* cell of the host grid and no cell of the device grid ever holds one (a
\* zero divisor stops the program instead).
C15_DivisionsGuarded ==
    /\ \A rc \in Coords(cells) : Finite(At(cells, rc).state_probabilities)
    /\ \A k \in 1..Len(gpu_cells) : Finite(gpu_cells[k].amplitudes)

\* C16: GridBuffers::new panics, with no buffer created or written, exactly
\* when initial_data.len() differs from width * height; otherwise it returns
\* with both buffers created and the data uploaded to buffer A.
C16_MismatchRefused ==
    dev_phase # "grid" =>
        IF Len(gpu_cells) # dev_width * dev_height
        THEN /\ dev_phase = "panic: Initial data size mismatch"
             /\ buffers = <<>>
        ELSE /\ dev_phase = "ready"
             /\ buffers # <<>>
             /\ buffers["a"] = Uploaded

\* the call refused for 3 cells handed over as a 2x2 grid
C16_Witness ==
    /\ dev_phase = "panic: Initial data size mismatch"
    /\ Len(gpu_cells) = 3
    /\ dev_width = 2
    /\ dev_height = 2

\* the cells a tick yields when one generator (tape g, from draw n) serves
\* every cell in row-major order, from cell number k on
RECURSIVE seq_tick(_, _, _, _, _, _)
seq_tick(grid, w, h, g, n, k) ==
    IF k = w * h THEN <<>>
    ELSE LET r == calculate_new_state(grid, grid[k \div w][k % w],
                      get_neighbors(grid, k \div w, k % w, w, h), g, n)
         IN  <<r.new_state>> \o seq_tick(grid, w, h, g, Advance(g, n, r.draws), k + 1)

\* the grid after one tick run by the first pool thread alone
SequentialTick(grid, w, h) ==
    LET flat == seq_tick(grid, w, h, rng[1].tape, 0, 0)
    IN  [i \in 0..(h - 1) |-> [j \in 0..(w - 1) |-> flat[i * w + j + 1]]]

\* C17: the grid after the first tick is the same in every run from the
\* same initial grid with the same seeds, whatever the schedule of the row
\* tasks: it is the grid of the run in which the first pool thread takes
\* every row.
C17_Deterministic ==
    (phase = "idle" /\ tick = 1) => cells = SequentialTick(cells0, width, height)

\* C18: update leaves the grid it was handed as it was: while update runs
\* the Grid's cells are the cells it held when update was called, and after
\* the first update they are still the cells Grid::new returned (the new
\* grid being produced elsewhere).
C18_NoSideEffect ==
    /\ InUpdate => cells = cells_arc
    /\ (phase = "idle" /\ tick = 1) => cells = cells0

\* p's maximum is at index k and nowhere else
StrictMaxAt(p, k) == \A x \in 0..3 : x # k => p[x] < p[k]

StrictCount(grid, S) ==
    Cardinality({rc \in Coords(grid) :
                    \E k \in S : StrictMaxAt(At(grid, rc).state_probabilities, k)})

Tied(grid) ==
    {rc \in Coords(grid) :
        \A k \in 0..3 : ~StrictMaxAt(At(grid, rc).state_probabilities, k)}

\* C19: the histogram counts every cell once; each cell with a strict
\* maximum at index 0 is in `one`, at index 1 in `minus_one`, at index 2 or
\* 3 in `complex` (so a grid with a strict maximum in every cell is counted
\* exactly, and a grid all dominant at index 0 reports (cell count, 0, 0));
\* the grid is what it was before the call.
C19_Histogram ==
    distribution # <<>> =>
        /\ distribution.one >= StrictCount(cells0, {0})
        /\ distribution.minus_one >= StrictCount(cells0, {1})
        /\ distribution.complex >= StrictCount(cells0, {2, 3})
        /\ distribution.one + distribution.minus_one + distribution.complex
              = Cardinality(Coords(cells0))
        /\ Tied(cells0) = {} =>
              /\ distribution.one = StrictCount(cells0, {0})
              /\ distribution.minus_one = StrictCount(cells0, {1})
              /\ distribution.complex = StrictCount(cells0, {2, 3})
        /\ StrictCount(cells0, {0}) = width * height =>
              distribution = [one |-> width * height, minus_one |-> 0, complex |-> 0]
        /\ cells = cells0

\* the histogram of a 2x2 grid with one cell dominant at each index
C19_Witness ==
    /\ width = 2
    /\ height = 2
    /\ \A k \in 0..3 : StrictCount(cells, {k}) = 1
    /\ distribution = [one |-> 1, minus_one |-> 1, complex |-> 2]

\* C20: the device Grid::new(width, height) returns width * height cells,
\* the cell made for the loop variables (x, y), which carries the seed
\* pcg_hash(x + pcg_hash(y)), at index y * width + x.
C20_RowMajor ==
    dev_phase # "start" /\ dev_phase # "off" =>
        /\ Len(gpu_cells) = dev_width * dev_height
        /\ \A x \in 0..(dev_width - 1), y \in 0..(dev_height - 1) :
              gpu_cells[y * dev_width + x + 1].rng_state
                  = pcg_hash(U32Add(u32(x), pcg_hash(u32(y))))

\* the 2x2 grid: its last cell, index 3, carries the seed of (1, 1), its
\* second cell that of (1, 0)
C20_Witness ==
    /\ dev_phase = "grid"
    /\ dev_width = 2
    /\ dev_height = 2
    /\ Len(gpu_cells) = 4
    /\ gpu_cells[2].rng_state = <<24163, 432>>
    /\ gpu_cells[3].rng_state = <<59690, 20874>>
    /\ gpu_cells[4].rng_state = <<45458, 7390>>

\* C21: every cell of the device Grid::new has its 4 phases and its 4
\* velocities at 0, local_time at 0 and time_dilation at 1.0, whatever was
\* drawn.
C21_FieldsInitialized ==
    \A k \in 1..Len(gpu_cells) :
        /\ \A i \in 0..3 : gpu_cells[k].phases[i] = 0
        /\ \A i \in 0..3 : gpu_cells[k].velocities[i] = 0
        /\ DOMAIN gpu_cells[k].phases = 0..3
        /\ DOMAIN gpu_cells[k].velocities = 0..3
        /\ gpu_cells[k].local_time = 0
        /\ gpu_cells[k].time_dilation = Scale

\* a grid of several cells whose draws gave different amplitudes and
\* different partners
C21_Witness ==
    /\ dev_phase = "grid"
    /\ Len(gpu_cells) >= 2
    /\ \E j, k \in 1..Len(gpu_cells) :
          /\ gpu_cells[j].amplitudes # gpu_cells[k].amplitudes
          /\ gpu_cells[j].entangled_partner # gpu_cells[k].entangled_partner

\* the writers of row i at this moment: the threads inside its closure call
Writers(i) == {t \in Threads : thr_row[t] = i}

\* within a tick a row has at most one writer, the thread that took it, and
\* nothing of a row is written before a thread took it
RowsOwned ==
    phase = "running" =>
        \A i \in Rows :
            /\ Cardinality(Writers(i)) <= 1
            /\ \A t \in Writers(i) : row_owner[i] = t
            /\ row_next[i] <= width
            /\ row_next[i] > 0 => row_owner[i] # 0
            /\ (row_owner[i] # 0 /\ row_next[i] < width) =>
                   Writers(i) = {row_owner[i]}

\* a step of a tick writes at most the cell (i, j) its writer stands on and
\* moves that row's column by one; no row changes hands or restarts; the
\* tick ends only with every column of every row passed
WrittenOnce ==
    phase = "running" =>
        /\ \A i \in Rows, j \in Cols :
              (cells'[i][j] # cells[i][j] \/ row_next'[i] # row_next[i]) =>
                  /\ Writers(i) = {row_owner[i]}
                  /\ row_next'[i] = row_next[i] + 1
                  /\ cells'[i][j] # cells[i][j] => row_next[i] = j
        /\ Cardinality({rc \in Coords(cells) : At(cells', rc) # At(cells, rc)}) <= 1
        /\ \A i \in Rows : row_owner[i] # 0 => row_owner'[i] = row_owner[i]
        /\ tick' # tick => \A i \in Rows : row_next[i] = width

\* C22: in Grid::update every coordinate is written once per tick, by the
\* one worker that owns its row, and never by two workers at a time.
C22_WriteExclusive == [](RowsOwned) /\ [][WrittenOnce]_vars

\* two workers in the middle of two different rows, each having written
C22_Witness ==
    /\ phase = "running"
    /\ \E t1, t2 \in Threads :
          /\ t1 # t2
          /\ thr_row[t1] # -1 /\ thr_row[t2] # -1
          /\ thr_row[t1] # thr_row[t2]
          /\ \A t \in {t1, t2} :
                /\ row_next[thr_row[t]] >= 1
                /\ cells[thr_row[t]][0] # cells_arc[thr_row[t]][0]

\* the scalars of the record in the order stated, one every 4 bytes
StatedScalars ==
    {<<4 * i, "amplitudes", i>> : i \in 0..3}
        \cup {<<16 + 4 * i, "phases", i>> : i \in 0..3}
        \cup {<<32 + 4 * i, "velocities", i>> : i \in 0..3}
        \cup {<<48, "local_time", 0>>, <<52, "time_dilation", 0>>,
              <<56, "entangled_partner", 0>>, <<60, "rng_state", 0>>}

\* C23: GpuCell occupies exactly 64 bytes, its fields in the order
\* amplitudes[4], phases[4], velocities[4], local_time, time_dilation,
\* entangled_partner, rng_state, 4 bytes per scalar and no padding; the
\* cells built and the buffers sized from them follow that record.
C23_Layout ==
    /\ size_of(GpuCell_fields) = 64
    /\ scalars_at(GpuCell_fields) = StatedScalars
    /\ \A k \in 1..Len(gpu_cells) :
          /\ DOMAIN gpu_cells[k] = {GpuCell_fields[f].name : f \in 1..Len(GpuCell_fields)}
          /\ \A f \in {g \in 1..Len(GpuCell_fields) : GpuCell_fields[g].len > 1} :
                DOMAIN gpu_cells[k][GpuCell_fields[f].name]
                    = 0..(GpuCell_fields[f].len - 1)
    /\ buffer_size(Len(gpu_cells)) = 64 * Len(gpu_cells)

\* a grid of cells uploaded into a buffer sized by the record
C23_Witness ==
    /\ dev_phase = "ready"
    /\ Len(gpu_cells) >= 2
    /\ buffers["a"].from_upload
    /\ buffer_size(Len(gpu_cells)) >= 128

\* C24: in every frame of App::render the buffer get_render_buffer returns
\* after the dispatch and the swap is the buffer that frame's compute pass
\* wrote, so the frame draws the new state and not the pre-tick state.
C24_RendersOutput ==
    \A k \in 1..Len(frames) :
        /\ frames[k].render = frames[k].output
        /\ frames[k].render # frames[k].input

Even(u) == u[2] % 2 = 0

\* C25: after any sequence of render calls, successful or failing,
\* read_from_a is true exactly when frame_number is even, also once
\* frame_number has wrapped at 2^32; the swap and the increment of
\* frame_number happen in the same calls.
C25_TickParity ==
    /\ [](read_from_a <=> Even(frame_number))
    /\ [][(read_from_a' # read_from_a) <=> (frame_number' # frame_number)]_vars

\* the counter has wrapped to 0 and a failing call followed
C25_Witness ==
    /\ frame_number = <<0, 0>>
    /\ Len(frames) = 2
    /\ frames[2].frame_number = <<65535, 65535>>
    /\ last_surface = "Lost"
    /\ read_from_a

\* C26: when acquiring the surface texture fails (Lost, Outdated or any
\* other error) the frame is abandoned: no compute pass is dispatched, the
\* buffers are not swapped and frame_number is not incremented.
C26_FrameAbandoned ==
    [][(last_surface' \in SurfaceOutcomes \ {"Ok"}) =>
          /\ buffers' = buffers
          /\ frames' = frames
          /\ read_from_a' = read_from_a
          /\ frame_number' = frame_number
          /\ gpu_cells' = gpu_cells]_vars

\* a failing call after one successful frame: the state of that frame kept
C26_Witness ==
    /\ last_surface \in {"Outdated", "Timeout"}
    /\ Len(frames) = 1
    /\ frame_number = <<0, 1>>
    /\ ~read_from_a
    /\ buffers["b"].steps = 1

\* the generator positions from which Grid::new builds exactly this grid
Starts ==
    {n0 \in 0..(Len(Tapes[dev_rng.tape]) - 1) :
        gpu_cells = gpu_rows(dev_width, dev_height, dev_rng.tape, n0, 0)}

\* whether the k-th cell built from position n0 drew a partner
PartnerDrawn(n0, k) ==
    FLt(Draw(dev_rng.tape, gpu_draws_used(dev_rng.tape, n0, k - 1) + 5), Milli(880))

\* C27: every entangled_partner word of the device Grid::new is either the
\* sentinel 0xFFFFFFFF, and then no partner was drawn, or it decodes to
\* (x, y) with x < width and y < height; a drawn partner is never encoded
\* as the sentinel.
C27_PartnerWord ==
    \* the largest partner a grid of 65535 by 65535 can draw
    /\ \E top \in {Some(<<0, 65534>>, <<0, 65534>>)} :
          /\ encode_partner(top) # <<65535, 65535>>
          /\ decode_partner(encode_partner(top)) = top
    /\ \A k \in 1..Len(gpu_cells) : \A n0 \in Starts :
        LET word == gpu_cells[k].entangled_partner
        IN  IF word = <<65535, 65535>>
            THEN ~PartnerDrawn(n0, k)
            ELSE /\ PartnerDrawn(n0, k)
                 /\ decode_partner(word) # None
                 /\ decode_partner(word)[1][1] = 0
                 /\ decode_partner(word)[2][1] = 0
                 /\ decode_partner(word)[1][2] < dev_width
                 /\ decode_partner(word)[2][2] < dev_height

\* a grid wider than high whose cells drew partners right of column 0
C27_Witness ==
    /\ dev_phase = "grid"
    /\ dev_width > dev_height
    /\ Starts # {}
    /\ \E k \in 1..Len(gpu_cells) :
          /\ gpu_cells[k].entangled_partner # <<65535, 65535>>
          /\ decode_partner(gpu_cells[k].entangled_partner)[1][2] >= dev_height

\* a grid whose cells drew no partner
C27_WitnessNone ==
    /\ dev_phase = "grid"
    /\ Len(gpu_cells) >= 2
    /\ \A k \in 1..Len(gpu_cells) : gpu_cells[k].entangled_partner = <<65535, 65535>>

\* how often key k was pressed since the last KeyR
RECURSIVE PressedSinceReset(_, _)
PressedSinceReset(ks, k) ==
    IF ks = <<>> \/ ks[Len(ks)] = "KeyR"
    THEN 0
    ELSE PressedSinceReset(SubSeq(ks, 1, Len(ks) - 1), k)
            + (IF ks[Len(ks)] = k THEN 1 ELSE 0)

\* C28: after any sequence of keys handled by handle_key, render_mode and
\* phase_visualization are each 0 or 1: Space and P toggle their flag (two
\* presses restore it), R restores the defaults, no other key touches them.
C28_FlagsBinary ==
    view # <<>> =>
        /\ view.render_mode \in {<<0, 0>>, <<0, 1>>}
        /\ view.phase_visualization \in {<<0, 0>>, <<0, 1>>}
        /\ view.render_mode[2] = PressedSinceReset(keys, "Space") % 2
        /\ view.phase_visualization[2] = PressedSinceReset(keys, "KeyP") % 2

\* Space pressed twice with P between: render_mode back at 0, phase on
C28_Witness ==
    /\ keys = <<"Space", "KeyP", "Space">>
    /\ view.render_mode = <<0, 0>>
    /\ view.phase_visualization = <<0, 1>>
====
